---- MODULE Spec2Model ----
(***************************************************************************)
(* Model of the phase controller of fasthttploader (src/loader.go):        *)
(* run() -> burstThroughput -> calibrateThroughput -> makeLoad ->          *)
(* makeReport, with the driver loop load(), the two watchdog goroutines,   *)
(* the unbuffered stop channel and the adaptive calibrate() step.          *)
(*                                                                         *)
(* float64 values (rate.Limit, multiplier) are fixed-point integers in     *)
(* units of 1/Scale, rounded towards zero.  Time is counted in sample      *)
(* periods.  The worker pool and the metrics counters live in the          *)
(* metrics package, which is not part of src/: they follow the spec.       *)
(***************************************************************************)
EXTENDS Integers, Sequences, FiniteSets, TLC

\* ---------------------------------------------------------------- bounds
\* Requests counted by the metrics registry; later completions are dequeued
\* but no longer counted.
MaxReq == 2
\* Capacity of the pool's job channel (client.Jobsch).
QueueCap == 1

\* ------------------------------------------------------------- constants
\* loader.go:19, :22, :25, in milliseconds.
calibrateDuration == 5000
adjustmentDuration == 10000
samplePeriod == 500
\* Fixed-point unit of a float64: 1.0 is Scale, 0.0001 is 1.
Scale == 10000
\* loader.go:151, the ramp of makeLoad has 10 steps.
RampSteps == 10

\* Flag values <<*q, *c, *d>>: -q (0 = discover), -c (workers), -d (load
\* seconds).
Flags == {<<0, 3, 2>>, <<0, 10, 2>>, <<1, 1, 2>>, <<1, 10, 2>>, <<1, 10, 20>>}

\* Sample ticks within the Calibrate deadline.
CalTicks == adjustmentDuration \div samplePeriod
\* loader.go:41, multiplier = float64(0.1).
multiplier0 == Scale \div 10

VARIABLES
    q, c, d,                \* the flags *q, *c, *d
    pcMain,                 \* position of the main goroutine in run()
    pcDrv,                  \* position of the main goroutine inside load()
    cfg,                    \* loadConfig: [qps, c]
    limit,                  \* throttle.Limit()
    amount, jobs,           \* client.Amount(), len(client.Jobsch)
    requestSum, mErrors,    \* metrics.RequestSum(), metrics.Errors()
    errors, multiplier, await,  \* package variables of loader.go
    wdC, calNow, calDue,    \* watchdog of calibrateThroughput and its timers
    wdL, loadNow, dueState, dueStep, steps, \* watchdog of makeLoad
    workerStep, qpsStep,    \* locals of makeLoad
    r,                      \* report.Page: length of each series
    phases,                 \* history: phases entered, in order
    sent, recvFrom,         \* history: stop signals per phase, origin received
    samples, evals,         \* history: printState calls per phase, calibrate() calls
    lastRunArg,             \* history: argument of the latest RunWorkers call
    firstEval,              \* history: branch of the first non-skipped calibrate()
    tokens,                 \* history: throttle.Wait calls since the last submit
    flushes                 \* history: client.Flush calls per phase

vars == <<q, c, d, pcMain, pcDrv, cfg, limit, amount, jobs, requestSum, mErrors,
          errors, multiplier, await, wdC, calNow, calDue, wdL, loadNow, dueState,
          dueStep, steps, workerStep, qpsStep, r, phases, sent, recvFrom, samples,
          evals, lastRunArg, firstEval, tokens, flushes>>

flagVars == <<q, c, d>>
metricVars == <<requestSum, mErrors>>
calVars == <<errors, multiplier, await>>
wdCVars == <<wdC, calNow, calDue>>
wdLVars == <<wdL, loadNow, dueState, dueStep, steps>>
stepVars == <<workerStep, qpsStep>>
histVars == <<phases, sent, recvFrom, samples, evals, lastRunArg>>

Series == {"Connections", "Errors", "Timeouts", "RequestSum", "RequestSuccess",
           "BytesWritten", "BytesRead", "Qps"}

Init ==
    /\ \E f \in Flags : q = f[1] /\ c = f[2] /\ d = f[3]
    /\ pcMain = "init" /\ pcDrv = "idle"
    /\ cfg = [qps |-> 0, c |-> 0]
    /\ limit = Scale
    /\ amount = 0 /\ jobs = 0
    /\ requestSum = 0 /\ mErrors = 0
    /\ errors = 0 /\ multiplier = multiplier0 /\ await = 0
    /\ wdC = "off" /\ calNow = 0 /\ calDue = FALSE
    /\ wdL = "off" /\ loadNow = 0 /\ dueState = FALSE /\ dueStep = FALSE /\ steps = 0
    /\ workerStep = 0 /\ qpsStep = 0
    /\ r = [s \in Series |-> 0]
    /\ phases = <<>>
    /\ sent = [cal |-> 0, load |-> 0]
    /\ recvFrom = [cal |-> "none", load |-> "none"]
    /\ samples = [cal |-> 0, load |-> 0]
    /\ evals = 0
    /\ lastRunArg = 0
    /\ firstEval = "none"
    /\ tokens = 0
    /\ flushes = [burst |-> 0, cal |-> 0, load |-> 0]

\* ------------------------------------------------- pure parts of the code
Abs(x) == IF x < 0 THEN -x ELSE x

\* The branch of run() inverted.
needsDiscovery_inverted(qv) == qv # 0

\* run(), loader.go:65: burst and calibrate only when *q == 0.
needsDiscovery(qv) == qv = 0

\* burstThroughput, loader.go:89: float64(RequestSum()) / calibrateDuration.Seconds().
burstQps(rs) == (rs * Scale * 1000) \div calibrateDuration

\* The error check without its factor 100.
burstHalve_noPercent(err, rs) == (err \div rs) > 2

\* burstThroughput, loader.go:91: (Errors()/RequestSum())*100 > 2 on uint64,
\* so the quotient is an integer division.  Only evaluated with rs > 0.
burstHalve(err, rs) == (err \div rs) * 100 > 2

\* The guard of calibrate() with 0.1 as its threshold, inclusive.
isNegligible_coarse(m) == Abs(m) * 10 <= Scale

\* calibrate(), loader.go:172: math.Abs(multiplier) < 0.0001.
isNegligible(m) == Abs(m) * 10000 < Scale

\* Any error at all counted as a new error.
isFlawed_any(me, e) == me > 0

\* isFlawed(), loader.go:222: Errors() > 0 && errors != Errors().
isFlawed(me, e) == me > 0 /\ e # me

\* The worker increment taken as the change relative to the whole pool.
calibrateWorkers_negative(a, m) == (a * (m - Scale)) \div Scale

\* calibrate(), loader.go:185: int(float64(client.Amount()) * multiplier).
calibrateWorkers(a, m) == (a * m) \div Scale

\* The rate step taken downward.
raiseLimit_lowers(l, m) == (l * (Scale - m)) \div Scale

\* calibrate(), loader.go:189: throttle.Limit() * rate.Limit(1+multiplier).
raiseLimit(l, m) == (l * (Scale + m)) \div Scale

\* The retreat multiplying instead of dividing.
retreat_grows(m) == (m * 12) \div 10

\* calibrate(), loader.go:193: multiplier /= 1.2.
retreat(m) == (m * 10) \div 12

\* calibrate(), loader.go:187 and :190: await += 1 after an escalation.
awaitAfterEscalation(a) == a + 1

\* The retreat waiting as long as an escalation.
awaitAfterRetreat_short(a) == a + 1

\* calibrate(), loader.go:194: await += 3 after a retreat.
awaitAfterRetreat(a) == a + 3

\* makeLoad, loader.go:133-134: s := time.Duration(d.Seconds() / 2 / 10) keeps
\* whole seconds; the step ticker has period time.Second * s, here in sample
\* periods.  time.Tick of a zero period never ticks.
stepTicks(dv) == (((dv \div 2) \div 10) * 1000) \div samplePeriod

\* makeLoad, loader.go:137-138.
workerStepOf(cv) == cv \div RampSteps
qpsStepOf(qv) == qv \div RampSteps

\* makeLoad, loader.go:151: the step ticks after the ramp are ignored.
rampDone(st) == st >= RampSteps - 1

\* makeLoad, loader.go:142: the deadline *d, in sample periods.
loadTicks(dv) == (dv * 1000) \div samplePeriod

\* A sample that misses the append to the qps series.
printState_missing(rep) == [s \in Series |-> IF s = "Qps" THEN rep[s] ELSE rep[s] + 1]

\* printState, loader.go:208-218: one append to every series.
printState(rep) == [s \in Series |-> rep[s] + 1]

\* Worker pool of the metrics package, after spec 4.C: run_workers(n) spawns
\* n additional workers, flush leaves the workers alive.
RunWorkers(a, n) == IF n > 0 THEN a + n ELSE a
Flush(a) == a

\* A sender is blocked on the unbuffered stopCh.
CalSending == wdC \in {"send_timeout", "send_halt"}
LoadSending == wdL = "send_load"
Stopped == pcMain \in {"panic", "done"}

\* ------------------------------------------------------------ run, Burst
\* run(), loader.go:55-74.
RunStart ==
    /\ pcMain = "init"
    /\ IF needsDiscovery(q)
         THEN /\ pcMain' = "burst_start"
              /\ phases' = Append(phases, "Burst")
              /\ cfg' = cfg
         ELSE /\ pcMain' = "load_c"
              /\ phases' = Append(phases, "Load")
              /\ cfg' = [qps |-> q * Scale, c |-> c]
    /\ UNCHANGED <<flagVars, pcDrv, limit, amount, jobs, metricVars, calVars,
                   wdCVars, wdLVars, stepVars, r, sent, recvFrom, samples, evals,
                   lastRunArg,
                   firstEval, tokens, flushes>>

\* burstThroughput, loader.go:83-85.
BurstStart ==
    /\ pcMain = "burst_start"
    /\ amount' = RunWorkers(amount, c)
    /\ lastRunArg' = c
    /\ pcMain' = "burst"
    /\ UNCHANGED <<flagVars, pcDrv, cfg, limit, jobs, metricVars, calVars, wdCVars,
                   wdLVars, stepVars, r, phases, sent, recvFrom, samples, evals,
                   firstEval, tokens, flushes>>

\* burstThroughput, loader.go:98-99: the send blocks while the channel is full.
BurstSubmit ==
    /\ pcMain = "burst"
    /\ jobs < QueueCap
    /\ jobs' = jobs + 1
    /\ UNCHANGED <<flagVars, pcMain, pcDrv, cfg, limit, amount, metricVars, calVars,
                   wdCVars, wdLVars, stepVars, r, histVars,
                   firstEval, tokens, flushes>>

\* burstThroughput, loader.go:88-97: the deadline.  qps and c from the
\* counters, the error check (a uint64 division, which panics when no request
\* was counted), the summary, Flush and return.
BurstTimeout ==
    /\ pcMain = "burst"
    /\ IF requestSum = 0
         THEN /\ pcMain' = "panic"
              /\ cfg' = [qps |-> burstQps(requestSum), c |-> amount]
              /\ UNCHANGED <<amount, phases, flushes>>
         ELSE /\ cfg' = IF burstHalve(mErrors, requestSum)
                          THEN [qps |-> burstQps(requestSum) \div 2, c |-> amount \div 2]
                          ELSE [qps |-> burstQps(requestSum), c |-> amount]
              /\ amount' = Flush(amount)
              /\ flushes' = [flushes EXCEPT !.burst = @ + 1]
              /\ pcMain' = "cal_start"
              /\ phases' = Append(phases, "Calibrate")
    /\ UNCHANGED <<flagVars, pcDrv, limit, jobs, metricVars, calVars, wdCVars,
                   wdLVars, stepVars, r, sent, recvFrom, samples, evals,
                   lastRunArg,
                   firstEval, tokens>>

\* A worker of the pool takes a job and performs the request; the outcome is
\* counted while the counters are below MaxReq.
Worker ==
    /\ ~Stopped
    /\ amount > 0 /\ jobs > 0
    /\ jobs' = jobs - 1
    /\ \E failed \in BOOLEAN :
         IF requestSum < MaxReq
           THEN /\ requestSum' = requestSum + 1
                /\ mErrors' = IF failed THEN mErrors + 1 ELSE mErrors
           ELSE /\ ~failed
                /\ UNCHANGED metricVars
    /\ UNCHANGED <<flagVars, pcMain, pcDrv, cfg, limit, amount, calVars, wdCVars,
                   wdLVars, stepVars, r, histVars,
                   firstEval, tokens, flushes>>

\* ------------------------------------------------------------- Calibrate
\* calibrateThroughput, loader.go:105-109 and the call of load() at :127.
CalStart ==
    /\ pcMain = "cal_start"
    /\ amount' = RunWorkers(amount, cfg.c)
    /\ lastRunArg' = cfg.c
    /\ limit' = cfg.qps
    /\ wdC' = "run" /\ calNow' = 0 /\ calDue' = FALSE
    /\ pcMain' = "cal" /\ pcDrv' = "select"
    /\ UNCHANGED <<flagVars, cfg, jobs, metricVars, calVars, wdLVars, stepVars, r,
                   phases, sent, recvFrom, samples, evals,
                   firstEval, tokens, flushes>>

\* One sample period passes for the Calibrate watchdog (time.Tick at :111).
\* The watchdog handles a tick before the next one is due, unless it is
\* blocked on stopCh, where the pending tick stays buffered.
CalAdvance ==
    /\ ~Stopped
    /\ wdC \in {"run", "send_halt"}
    /\ wdC = "run" => ~calDue
    /\ calNow < CalTicks
    /\ calNow' = calNow + 1
    /\ calDue' = TRUE
    /\ UNCHANGED <<flagVars, pcMain, pcDrv, cfg, limit, amount, jobs, metricVars,
                   calVars, wdC, wdLVars, stepVars, r, histVars,
                   firstEval, tokens, flushes>>

\* calibrateThroughput, loader.go:120-122: printState() and calibrate()
\* (loader.go:171-196, with isFlawed at :221-228).
CalTick ==
    /\ ~Stopped
    /\ wdC = "run" /\ calDue
    /\ calDue' = FALSE
    /\ r' = printState(r)
    /\ samples' = [samples EXCEPT !.cal = @ + 1]
    /\ evals' = evals + 1
    /\ IF isNegligible(multiplier)
         THEN /\ wdC' = "send_halt"
              /\ UNCHANGED <<limit, amount, calVars, lastRunArg, firstEval>>
         ELSE /\ wdC' = wdC
              /\ IF await > 0
                   THEN /\ await' = await - 1
                        /\ UNCHANGED <<limit, amount, errors, multiplier, lastRunArg,
                                       firstEval>>
                   ELSE IF ~isFlawed(mErrors, errors)
                     THEN IF jobs > 0
                            THEN /\ amount' = RunWorkers(amount, calibrateWorkers(amount, multiplier))
                                 /\ lastRunArg' = calibrateWorkers(amount, multiplier)
                                 /\ await' = awaitAfterEscalation(await)
                                 /\ firstEval' = IF firstEval = "none" THEN "workers" ELSE firstEval
                                 /\ UNCHANGED <<limit, errors, multiplier>>
                            ELSE /\ limit' = raiseLimit(limit, multiplier)
                                 /\ await' = awaitAfterEscalation(await)
                                 /\ firstEval' = IF firstEval = "none" THEN "rate" ELSE firstEval
                                 /\ UNCHANGED <<amount, errors, multiplier, lastRunArg>>
                     ELSE /\ errors' = mErrors
                          /\ multiplier' = retreat(multiplier)
                          /\ await' = awaitAfterRetreat(await)
                          /\ firstEval' = IF firstEval = "none" THEN "retreat" ELSE firstEval
                          /\ UNCHANGED <<limit, amount, lastRunArg>>
    /\ UNCHANGED <<flagVars, pcMain, pcDrv, cfg, jobs, metricVars, calNow, wdLVars,
                   stepVars, phases, sent, recvFrom,
                   tokens, flushes>>

\* calibrateThroughput, loader.go:114-115: the deadline; the send blocks until
\* load() receives.
CalTimeout ==
    /\ ~Stopped
    /\ wdC = "run"
    /\ calNow = CalTicks
    /\ wdC' = "send_timeout"
    /\ UNCHANGED <<flagVars, pcMain, pcDrv, cfg, limit, amount, jobs, metricVars,
                   calVars, calNow, calDue, wdLVars, stepVars, r, histVars,
                   firstEval, tokens, flushes>>

\* calibrateThroughput, loader.go:116.
CalStoreQps ==
    /\ ~Stopped
    /\ wdC = "w_qps"
    /\ cfg' = [cfg EXCEPT !.qps = limit]
    /\ wdC' = "w_c"
    /\ UNCHANGED <<flagVars, pcMain, pcDrv, limit, amount, jobs, metricVars, calVars,
                   calNow, calDue, wdLVars, stepVars, r, histVars,
                   firstEval, tokens, flushes>>

\* calibrateThroughput, loader.go:117-119.
CalStoreC ==
    /\ ~Stopped
    /\ wdC = "w_c"
    /\ cfg' = [cfg EXCEPT !.c = amount]
    /\ wdC' = "done"
    /\ UNCHANGED <<flagVars, pcMain, pcDrv, limit, amount, jobs, metricVars, calVars,
                   calNow, calDue, wdLVars, stepVars, r, histVars,
                   firstEval, tokens, flushes>>

\* ------------------------------------------------------- the driver load()
\* load(), loader.go:232-236: default is taken only when no sender waits.
DrvDefault ==
    /\ pcDrv = "select"
    /\ ~CalSending /\ ~LoadSending
    /\ pcDrv' = "wait"
    /\ UNCHANGED <<flagVars, pcMain, cfg, limit, amount, jobs, metricVars, calVars,
                   wdCVars, wdLVars, stepVars, r, histVars,
                   firstEval, tokens, flushes>>

\* load(), loader.go:237: throttle.Wait returns once a token is there, which
\* takes a positive rate.
DrvWait ==
    /\ pcDrv = "wait"
    /\ limit > 0
    /\ tokens' = tokens + 1
    /\ pcDrv' = "submit"
    /\ UNCHANGED <<flagVars, pcMain, cfg, limit, amount, jobs, metricVars, calVars,
                   wdCVars, wdLVars, stepVars, r, histVars,
                   firstEval, flushes>>

\* load(), loader.go:240: the send blocks while the channel is full.
DrvSubmit ==
    /\ pcDrv = "submit"
    /\ jobs < QueueCap
    /\ jobs' = jobs + 1
    /\ tokens' = 0
    /\ pcDrv' = "select"
    /\ UNCHANGED <<flagVars, pcMain, cfg, limit, amount, metricVars, calVars,
                   wdCVars, wdLVars, stepVars, r, histVars,
                   firstEval, flushes>>

\* The rendezvous on stopCh: a blocked sender (loader.go:115, :147 or :174)
\* and load() at its select (loader.go:233-235), which flushes and returns
\* to calibrateThroughput or makeLoad, and so to run().
StopRendezvous ==
    /\ pcDrv = "select"
    /\ \E s \in {"cal", "load"} :
         /\ IF s = "cal" THEN CalSending ELSE LoadSending
         /\ sent' = [sent EXCEPT ![s] = @ + 1]
         /\ recvFrom' = [recvFrom EXCEPT ![pcMain] = IF s = "cal" THEN wdC ELSE wdL]
         /\ wdC' = IF s # "cal" THEN wdC
                   ELSE IF wdC = "send_timeout" THEN "w_qps" ELSE "run"
         /\ wdL' = IF s = "load" THEN "done" ELSE wdL
    /\ amount' = Flush(amount)
    /\ flushes' = [flushes EXCEPT ![pcMain] = @ + 1]
    /\ pcDrv' = "idle"
    /\ pcMain' = IF pcMain = "cal" THEN "load_c" ELSE "report"
    /\ phases' = Append(phases, IF pcMain = "cal" THEN "Load" ELSE "Report")
    /\ UNCHANGED <<flagVars, cfg, limit, jobs, metricVars, calVars, calNow, calDue,
                   loadNow, dueState, dueStep, steps, stepVars, r, samples, evals,
                   lastRunArg,
                   firstEval, tokens>>

\* ------------------------------------------------------------------ Load
\* makeLoad, loader.go:137.
MakeLoadReadC ==
    /\ pcMain = "load_c"
    /\ workerStep' = workerStepOf(cfg.c)
    /\ pcMain' = "load_q"
    /\ UNCHANGED <<flagVars, pcDrv, cfg, limit, amount, jobs, metricVars, calVars,
                   wdCVars, wdLVars, qpsStep, r, histVars,
                   firstEval, tokens, flushes>>

\* makeLoad, loader.go:138.
MakeLoadReadQps ==
    /\ pcMain = "load_q"
    /\ qpsStep' = qpsStepOf(cfg.qps)
    /\ pcMain' = "load_go"
    /\ UNCHANGED <<flagVars, pcDrv, cfg, limit, amount, jobs, metricVars, calVars,
                   wdCVars, wdLVars, workerStep, r, histVars,
                   firstEval, tokens, flushes>>

\* makeLoad, loader.go:139-143 and the call of load() at :166.
MakeLoadGo ==
    /\ pcMain = "load_go"
    /\ limit' = qpsStep
    /\ amount' = RunWorkers(amount, workerStep)
    /\ lastRunArg' = workerStep
    /\ wdL' = "run" /\ loadNow' = 0 /\ dueState' = FALSE /\ dueStep' = FALSE
    /\ steps' = 0
    /\ pcMain' = "load" /\ pcDrv' = "select"
    /\ UNCHANGED <<flagVars, cfg, jobs, metricVars, calVars, wdCVars, stepVars, r,
                   phases, sent, recvFrom, samples, evals,
                   firstEval, tokens, flushes>>

\* One sample period passes for the Load watchdog: stateTick (loader.go:135)
\* is due, and stepTick (loader.go:134) at the multiples of its period.
LoadAdvance ==
    /\ ~Stopped
    /\ wdL = "run"
    /\ ~dueState /\ ~dueStep
    /\ loadNow < loadTicks(d)
    /\ loadNow' = loadNow + 1
    /\ dueState' = TRUE
    /\ dueStep' = (stepTicks(d) > 0 /\ (loadNow + 1) % stepTicks(d) = 0)
    /\ UNCHANGED <<flagVars, pcMain, pcDrv, cfg, limit, amount, jobs, metricVars,
                   calVars, wdCVars, wdL, steps, stepVars, r, histVars,
                   firstEval, tokens, flushes>>

\* makeLoad, loader.go:157-158.
LoadStateTick ==
    /\ ~Stopped
    /\ wdL = "run" /\ dueState
    /\ dueState' = FALSE
    /\ r' = printState(r)
    /\ samples' = [samples EXCEPT !.load = @ + 1]
    /\ UNCHANGED <<flagVars, pcMain, pcDrv, cfg, limit, amount, jobs, metricVars,
                   calVars, wdCVars, wdL, loadNow, dueStep, steps, stepVars, phases,
                   sent, recvFrom, evals, lastRunArg,
                   firstEval, tokens, flushes>>

\* makeLoad, loader.go:150-156.
LoadStepTick ==
    /\ ~Stopped
    /\ wdL = "run" /\ dueStep
    /\ dueStep' = FALSE
    /\ IF rampDone(steps)
         THEN UNCHANGED <<limit, amount, steps, lastRunArg>>
         ELSE /\ limit' = limit + qpsStep
              /\ amount' = RunWorkers(amount, workerStep)
              /\ lastRunArg' = workerStep
              /\ steps' = steps + 1
    /\ UNCHANGED <<flagVars, pcMain, pcDrv, cfg, jobs, metricVars, calVars, wdCVars,
                   wdL, loadNow, dueState, stepVars, r, phases, sent, recvFrom,
                   samples, evals,
                   firstEval, tokens, flushes>>

\* makeLoad, loader.go:146-147: the deadline; the send blocks until load()
\* receives.
LoadTimeout ==
    /\ ~Stopped
    /\ wdL = "run"
    /\ loadNow = loadTicks(d)
    /\ wdL' = "send_load"
    /\ UNCHANGED <<flagVars, pcMain, pcDrv, cfg, limit, amount, jobs, metricVars,
                   calVars, wdCVars, loadNow, dueState, dueStep, steps, stepVars, r,
                   histVars,
                   firstEval, tokens, flushes>>

\* run(), loader.go:79: makeReport (loader.go:245-254), then the process ends.
MakeReport ==
    /\ pcMain = "report"
    /\ pcMain' = "done"
    /\ UNCHANGED <<flagVars, pcDrv, cfg, limit, amount, jobs, metricVars, calVars,
                   wdCVars, wdLVars, stepVars, r, histVars,
                   firstEval, tokens, flushes>>

Next ==
    \/ RunStart \/ BurstStart \/ BurstSubmit \/ BurstTimeout
    \/ Worker
    \/ CalStart \/ CalAdvance \/ CalTick \/ CalTimeout \/ CalStoreQps \/ CalStoreC
    \/ DrvDefault \/ DrvWait \/ DrvSubmit \/ StopRendezvous
    \/ MakeLoadReadC \/ MakeLoadReadQps \/ MakeLoadGo
    \/ LoadAdvance \/ LoadStateTick \/ LoadStepTick \/ LoadTimeout
    \/ MakeReport

Spec == Init /\ [][Next]_vars

\* ---------------------------------------------------------------- claims
IsPrefix(p, full) == Len(p) <= Len(full) /\ \A i \in 1..Len(p) : p[i] = full[i]

\* The phase the main goroutine is in, from its position.
PhaseOfPc ==
    CASE pcMain = "init" -> "Init"
      [] pcMain \in {"burst_start", "burst", "panic"} -> "Burst"
      [] pcMain \in {"cal_start", "cal"} -> "Calibrate"
      [] pcMain \in {"load_c", "load_q", "load_go", "load"} -> "Load"
      [] OTHER -> "Report"

\* C1: run() enters the phases in the order Burst, Calibrate, Load, Report
\* when q = 0 and Load, Report when q # 0 (then with cfg.qps = q and
\* cfg.c = c); no phase is entered twice and Report only after Load.
C1_PhaseOrder ==
    /\ q = 0 => IsPrefix(phases, <<"Burst", "Calibrate", "Load", "Report">>)
    /\ q # 0 => IsPrefix(phases, <<"Load", "Report">>)
    /\ q # 0 /\ PhaseOfPc = "Load" => cfg = [qps |-> q * Scale, c |-> c]
    /\ IF phases = <<>> THEN PhaseOfPc = "Init" ELSE PhaseOfPc = phases[Len(phases)]

C1_AllPhasesVisited ==
    /\ pcMain = "done"
    /\ phases = <<"Burst", "Calibrate", "Load", "Report">>

\* The step of the Burst deadline that goes on to Calibrate.
BurstDeadlineStep == pcMain = "burst" /\ pcMain' = "cal_start"

\* C2: at the Burst deadline cfg.qps = request_sum / T_burst and cfg.c =
\* pool.amount(), both halved if and only if errors/request_sum > 0.02.
C2_HalvedIffOverTwoPercent ==
    [][BurstDeadlineStep =>
         LET over == mErrors * 100 > 2 * requestSum
             k == IF over THEN 2 ELSE 1
         IN /\ cfg'.qps * k * calibrateDuration = requestSum * Scale * 1000
            /\ cfg'.c = amount \div k]_vars

\* C3: if every request of Burst is an error (errors = request_sum > 0), then
\* after Burst cfg.qps is exactly half of request_sum / T_burst and cfg.c is
\* half of pool.amount(), by integer division.
C3_AllErrorsHalve ==
    [][BurstDeadlineStep /\ requestSum > 0 /\ mErrors = requestSum =>
         /\ cfg'.qps * 2 * calibrateDuration = requestSum * Scale * 1000
         /\ cfg'.c = amount \div 2]_vars

C3_HalvedAfterAllErrors ==
    /\ pcMain = "cal_start"
    /\ requestSum > 0 /\ mErrors = requestSum
    /\ c = 3 /\ cfg.c = 1
    /\ cfg.qps * 2 * calibrateDuration = requestSum * Scale * 1000

C5_TenEqualIncrements ==
    wdL # "off" /\ 2 * loadNow >= loadTicks(d) =>
        /\ steps = RampSteps - 1
        /\ limit = RampSteps * qpsStep

\* C6: when Calibrate has ended, makeLoad derives workerStep and qpsStep from
\* the pool's worker count and the limiter's limit at the end of Calibrate,
\* under every interleaving of the Calibrate watchdog and the main goroutine.
C6_StepsFromCalibrateEnd ==
    q = 0 /\ pcMain = "load_go" =>
        /\ workerStep = amount \div RampSteps
        /\ qpsStep = limit \div RampSteps

\* C7: exactly one stop signal is sent per paced phase, and a phase's
\* watchdog does nothing more (no calibrate() evaluation, no sample append,
\* no stop send) once it has emitted that phase's stop signal.
C7_OneStopPerPhase ==
    /\ [](/\ sent.cal <= 1 /\ sent.load <= 1
          /\ q = 0 /\ PhaseOfPc \in {"Load", "Report"} => sent.cal = 1
          /\ PhaseOfPc = "Report" => sent.load = 1)
    /\ [][/\ sent.cal >= 1 =>
               /\ evals' = evals
               /\ samples'.cal = samples.cal
               /\ ~CalSending'
          /\ sent.load >= 1 =>
               /\ samples'.load = samples.load
               /\ ~LoadSending']_vars

C7_BothStopsSent ==
    /\ pcMain = "done"
    /\ sent = [cal |-> 1, load |-> 1]
    /\ wdC = "done" /\ wdL = "done"

\* C8: the driver loop of Load stops, and the controller moves to Report,
\* only after the Load deadline has fired: load() of the Load phase never
\* receives a stop signal that comes from the Calibrate watchdog.
C8_LoadStopsOnLoadDeadline ==
    /\ recvFrom.load \in {"none", "send_load"}
    /\ recvFrom.cal \in {"none", "send_timeout", "send_halt"}
    /\ PhaseOfPc = "Report" =>
        /\ recvFrom.load = "send_load"
        /\ loadNow = loadTicks(d)

C8_ReportAfterCalibrateAndLoad ==
    /\ pcMain = "report"
    /\ recvFrom = [cal |-> "send_timeout", load |-> "send_load"]

\* C9: once the Load deadline has fired, the driver stops, the pool is
\* flushed and Report is reached: the send on stopCh and the driver's
\* blocking submit never leave the system stuck, for every q > 0 with any
\* c >= 1 and for q = 0.
C9_LoadDeadlineNeverStuck ==
    wdL = "send_load" => ENABLED Next

\* C10: pool.amount() never decreases across any step of a run, and every
\* RunWorkers call of the controller has a non-negative argument.
C10_WorkersNeverDecrease ==
    /\ [][amount' >= amount]_vars
    /\ [](lastRunArg >= 0)

C10_WorkersAddedInEveryPhase ==
    /\ pcMain = "done"
    /\ q = 0
    /\ amount > 2 * c

\* C11: the multiplier never increases: it is 0.1 until the first
\* evaluation, every step leaves it unchanged or divides it by 1.2, and it
\* is divided only by a non-skipped calibrate() evaluation that finds the
\* errors counter positive and different from the last-seen count (a
\* retreat), which also records the counter.
C11_MultiplierOnlyDecays ==
    /\ [](evals = 0 => multiplier = Scale \div 10)
    /\ [][/\ multiplier' <= multiplier
          /\ multiplier' # multiplier =>
                /\ wdC = "run" /\ evals' = evals + 1
                /\ await = 0 /\ mErrors > 0 /\ errors # mErrors
                /\ multiplier' = (multiplier * 10) \div 12
                /\ errors' = mErrors]_vars

C11_MultiplierDividedTwice ==
    /\ wdC = "run"
    /\ multiplier = ((((Scale \div 10) * 10) \div 12) * 10) \div 12

\* Calibrate has just ended: the driver has received the stop, cfg.qps is
\* still the limit Calibrate started with (the watchdog has not stored the
\* new one yet) and the limiter still has the limit Calibrate ended with.
CalibrateEnded ==
    /\ wdC = "w_qps"
    /\ pcMain \in {"load_c", "load_q", "load_go"}

\* C12 as stated: the limit at the end of Calibrate is at least the limit
\* Calibrate started with, and strictly greater whenever the first non-skipped
\* evaluation is not a retreat.
C12_StrictUnlessFirstRetreats ==
    CalibrateEnded =>
        /\ limit >= cfg.qps
        /\ firstEval \in {"workers", "rate"} => limit > cfg.qps

\* C12 amended: the limit at the end of Calibrate is at least the limit
\* Calibrate started with, and strictly greater whenever the first non-skipped
\* evaluation raises the rate (finds no new errors and an empty queue).
C12_LimitNeverBelowStart ==
    CalibrateEnded =>
        /\ limit >= cfg.qps
        /\ firstEval = "rate" => limit > cfg.qps

C12_CalibrateEndedWithRaisedLimit ==
    /\ wdC = "w_qps"
    /\ pcMain = "load_c"
    /\ firstEval = "rate"
    /\ limit > cfg.qps

\* C13: all eight report series have the same length, the number of sample
\* ticks processed so far in Calibrate and Load together.
C13_SeriesLengthIsTickCount ==
    \A s \in Series : r[s] = samples.cal + samples.load

C13_SampledInBothPhases ==
    /\ samples.cal = CalTicks
    /\ samples.load > 0
    /\ \A s \in Series : r[s] = samples.cal + samples.load

\* C14: whatever the counters are at the Burst deadline, request_sum = 0 and
\* errors = request_sum included, the step that leaves Burst enters Calibrate:
\* the run never crashes.
C14_BurstNeverCrashes ==
    [][pcMain = "burst" /\ pcMain' # "burst" => pcMain' = "cal_start"]_vars

\* C15: the step that ends Burst sets the calibrator's last-seen error count
\* to the current errors counter, so errors of Burst alone never make the
\* first evaluation of Calibrate flawed.
C15_LastSeenSetAtBurstEnd ==
    [][BurstDeadlineStep => errors' = mErrors']_vars

\* A sample tick of Calibrate that calibrate() evaluates (await is 0).
EvaluatedTick ==
    /\ wdC = "run" /\ evals' = evals + 1
    /\ await = 0

\* A sample tick of Calibrate that calibrate() skips (await is positive).
SkippedTick ==
    /\ wdC = "run" /\ evals' = evals + 1
    /\ await > 0

\* C16: a non-skipped evaluation does exactly one of three things. Errors
\* not above the last-seen count and a non-empty queue: floor(amount *
\* multiplier) workers are added, limit and multiplier stay. Errors not above
\* the last-seen count and an empty queue: the limit is multiplied by
\* 1 + multiplier, workers and multiplier stay. Errors above the last-seen
\* count: multiplier is divided by 1.2, the last-seen count is updated, limit
\* and workers stay.
C16_ExactlyOneOfThree ==
    [][EvaluatedTick =>
        IF mErrors <= errors
          THEN IF jobs > 0
                 THEN /\ amount' = amount + (amount * multiplier) \div Scale
                      /\ limit' = limit /\ multiplier' = multiplier
                      /\ errors' = errors
                 ELSE /\ limit' = (limit * (Scale + multiplier)) \div Scale
                      /\ amount' = amount /\ multiplier' = multiplier
                      /\ errors' = errors
          ELSE /\ multiplier' = (multiplier * 10) \div 12
               /\ errors' = mErrors
               /\ limit' = limit /\ amount' = amount]_vars

C16_AllThreeBranchesTaken ==
    /\ wdC = "run"
    /\ multiplier < Scale \div 10
    /\ limit > cfg.qps
    /\ amount > c + cfg.c

\* C17: an evaluation that escalates sets await to 1 and one that retreats
\* sets it to 3; a skipped tick decrements await and changes neither limit,
\* workers, multiplier nor the last-seen error count; nothing else changes
\* await, which stays within 0..3. So one tick is skipped after an
\* escalation and three after a retreat.
C17_AwaitCooldown ==
    /\ [](await \in 0..3)
    /\ [][EvaluatedTick => await' = IF mErrors > errors THEN 3 ELSE 1]_vars
    /\ [][SkippedTick => /\ await' = await - 1
                         /\ UNCHANGED <<limit, amount, multiplier, errors>>]_vars
    /\ [][await' # await => EvaluatedTick \/ SkippedTick]_vars

C17_SecondSkipAfterRetreat ==
    /\ wdC = "run"
    /\ await = 1
    /\ calDue
    /\ firstEval = "retreat"
    /\ evals = 3

\* C18: when Calibrate starts driving load (until its first evaluation) the
\* pool holds exactly cfg.c workers, the count Burst determined, not more.
C18_PoolToppedUpToCfgWorkers ==
    wdC = "run" /\ firstEval = "none" => amount = cfg.c

\* C19: in Load, in both modes, the limit is qps/10 and the pool holds
\* workers/10 workers at the first step, and both have grown by one such
\* increment with every step taken, the pool up to at most workers.
C19_LinearRampFromFirstStep ==
    wdL \in {"run", "send_load"} =>
        /\ limit = (steps + 1) * qpsStep
        /\ amount = (steps + 1) * workerStep
        /\ amount <= RampSteps * workerStep

\* C20: a job is submitted in Calibrate and Load only after exactly one
\* limiter wait since the previous submission and before the stop of that
\* phase is received, and in Burst without any limiter wait; the pool is
\* flushed at most once per phase, exactly once as soon as the stop of
\* Calibrate or Load is received, and exactly once when the Burst deadline has
\* passed.
C20_PacedSubmitsOneFlushPerPhase ==
    [][/\ jobs' > jobs =>
            \/ pcMain = "burst" /\ tokens = 0
            \/ /\ pcMain \in {"cal", "load"}
               /\ tokens = 1
               /\ recvFrom[pcMain] = "none"
       /\ flushes'.cal = (IF recvFrom'.cal = "none" THEN 0 ELSE 1)
       /\ flushes'.load = (IF recvFrom'.load = "none" THEN 0 ELSE 1)
       /\ flushes'.burst =
            (IF q' = 0 /\ pcMain' \notin {"init", "burst_start", "burst"}
               THEN 1 ELSE 0)]_vars

====
